---- MODULE Spec2Model ----
(***************************************************************************)
(* Admission control of the jevi-chat backend: the in-memory fixed-window  *)
(* RateLimiter of handlers/chat.go, the subscription middleware of         *)
(* middleware/auth.go and the message handlers with their quota checks.    *)
(*                                                                         *)
(* Time is counted in units of 30 seconds, so that one limiter window      *)
(* (time.Minute) is two clock readings long and Truncate is not the        *)
(* identity.                                                               *)
(***************************************************************************)
EXTENDS Integers, Naturals, Sequences, FiniteSets, TLC

\* ---------------------------------------------------------------- bounds
MaxTime == 22
MaxBurst == 2
MaxCalls == 3
NumCallers == 3
MaxClock == 3
MaxExpiry == 2

\* ------------------------------------------------------ program constants
\* time.Minute, the rate every limiter of InitRateLimiters is built with
Rate == 2
\* cutoff := time.Now().Add(-10 * time.Minute)
CleanupCutoff == 20
\* time.NewTicker(5 * time.Minute)
CleanupInterval == 10

Keys == {"ip1", "ip2"}

\* the limiters InitRateLimiters builds
Classes == {"chat", "auth", "general"}

\* InitRateLimiters: bursts 100, 50 and 200, scaled to a chat burst of b
ScaledBursts(b) == [c \in Classes |->
    IF c = "chat" THEN b ELSE IF c = "auth" THEN (b + 1) \div 2 ELSE 2 * b]

VARIABLES
    now,        \* the wall clock every time.Now() reads
    horizon,    \* the last clock reading of the run
    burst,      \* rl.burst of each limiter
    visitors,   \* rl.visitors of each limiter: key -> Visitor, NoVisitor when absent
    mu,         \* rl.mu of each limiter: 0 when unlocked, else the goroutine holding it
    nextTick,   \* per limiter, the next reading at which the janitor's ticker fires
    last,       \* the last limiter or store call: operation, key, reading, result
    calls,      \* per key: the Allow calls of the current window
    gor,        \* the goroutines calling Allow: position and locals
    projects,   \* the projects collection: one record per project
    req,        \* the requests in flight: position in the handler chain and locals
    pending,    \* per project, the updateGeminiUsage goroutines not yet run
    repairs,    \* the limit-repair goroutines not yet run
    rateLimitMap,   \* rateLimitMap: client IP -> the readings of its recent requests
    notifications   \* the notifications collection: the logged notifications

vars == <<now, horizon, burst, visitors, mu, nextTick, last, calls, gor,
          projects, req, pending, repairs, rateLimitMap, notifications>>

\* the state of the limiters, of the message handlers, of the bookkeeping
rlVars == <<burst, visitors, mu, nextTick>>
admVars == <<projects, req, pending, repairs>>
opsVars == <<rateLimitMap, notifications>>

\* goroutines that call Allow concurrently
Callers == 1..NumCallers

Idle == [pc |-> "idle", key |-> "", t |-> 0, exists |-> FALSE, res |-> FALSE]

\* ------------------------------------------------------------- Visitor
NoVisitor == [lastSeen |-> 0, count |-> 0, window |-> 0]

NoCalls == [win |-> 0, n |-> 0, ok |-> 0]

NoLast == [op |-> "none", key |-> "", t |-> 0, res |-> 0, pre |-> NoVisitor]

\* time.Time.Truncate(d): round down to a multiple of d
Truncate(t, d) == t - (t % d)

Min(a, b) == IF a < b THEN a ELSE b

\* ------------------------------------------------- RateLimiter.Allow
\* Allow with the burst comparison off by one (count <= burst)
AllowReturns_OffByOne(v, b, t) ==
    IF v = NoVisitor THEN TRUE
    ELSE IF v.window < Truncate(t, Rate) THEN TRUE
    ELSE v.count <= b

\* the value Allow returns for visitor v of a limiter with burst b at reading t
AllowReturns(v, b, t) ==
    IF v = NoVisitor THEN TRUE
    ELSE IF v.window < Truncate(t, Rate) THEN TRUE
    ELSE v.count < b

\* Allow that moves the window on rollover but forgets to restart the count
AllowVisitor_KeepCount(v, b, t) ==
    IF v = NoVisitor
        THEN [lastSeen |-> t, count |-> 1, window |-> Truncate(t, Rate)]
    ELSE IF v.window < Truncate(t, Rate)
        THEN [lastSeen |-> t, count |-> v.count, window |-> Truncate(t, Rate)]
    ELSE IF v.count < b
        THEN [lastSeen |-> t, count |-> v.count + 1, window |-> v.window]
    ELSE v

\* the Visitor Allow leaves in the map
AllowVisitor(v, b, t) ==
    IF v = NoVisitor
        THEN [lastSeen |-> t, count |-> 1, window |-> Truncate(t, Rate)]
    ELSE IF v.window < Truncate(t, Rate)
        THEN [lastSeen |-> t, count |-> 1, window |-> Truncate(t, Rate)]
    ELSE IF v.count < b
        THEN [lastSeen |-> t, count |-> v.count + 1, window |-> v.window]
    ELSE v

\* ------------------------------------- RateLimiter.GetRemainingRequests
\* GetRemainingRequests without the test for a rolled-over window
RemainingOf_NoRollover(v, b, t) ==
    IF v = NoVisitor THEN b
    ELSE IF b - v.count < 0 THEN 0
    ELSE b - v.count

RemainingOf(v, b, t) ==
    IF v = NoVisitor THEN b
    ELSE IF v.window < Truncate(t, Rate) THEN b
    ELSE IF b - v.count < 0 THEN 0
    ELSE b - v.count

\* ------------------------------------------------------- bookkeeping
\* the Allow calls of key k whose reading falls in the window of t
CallsAfter(c, t, res) ==
    IF c # NoCalls /\ c.win = Truncate(t, Rate)
        THEN [win |-> c.win, n |-> c.n + 1, ok |-> c.ok + (IF res THEN 1 ELSE 0)]
        ELSE [win |-> Truncate(t, Rate), n |-> 1, ok |-> IF res THEN 1 ELSE 0]

CallsInWindow(c, t) ==
    IF c # NoCalls /\ c.win = Truncate(t, Rate) THEN c.n ELSE 0

\* ------------------------------------------------------------ actions
\* Allow on a limiter that keeps one counter for all keys
Allow_SharedCounter(c, k) ==
    /\ mu[c] = 0
    /\ CallsInWindow(calls[k], now) < MaxCalls
    /\ LET v == visitors[c][k]
           res == AllowReturns(v, burst[c], now)
       IN /\ visitors' = [visitors EXCEPT ![c] =
                             [j \in Keys |-> AllowVisitor(v, burst[c], now)]]
          /\ last' = [op |-> "Allow", key |-> k, t |-> now,
                      res |-> IF res THEN 1 ELSE 0, pre |-> v]
          /\ calls' = [calls EXCEPT ![k] = CallsAfter(@, now, res)]
    /\ UNCHANGED <<opsVars, now, horizon, burst, mu, nextTick, gor, admVars>>

\* rl.Allow(ip) of limiter c; the mutex makes the body one step
Allow(c, k) ==
    /\ mu[c] = 0
    /\ CallsInWindow(calls[k], now) < MaxCalls
    /\ LET v == visitors[c][k]
           res == AllowReturns(v, burst[c], now)
       IN /\ visitors' = [visitors EXCEPT ![c][k] = AllowVisitor(v, burst[c], now)]
          /\ last' = [op |-> "Allow", key |-> k, t |-> now,
                      res |-> IF res THEN 1 ELSE 0, pre |-> v]
          /\ calls' = [calls EXCEPT ![k] = CallsAfter(@, now, res)]
    /\ UNCHANGED <<opsVars, now, horizon, burst, mu, nextTick, gor, admVars>>

\* rl.GetRemainingRequests(ip) of limiter c
GetRemainingRequests(c, k) ==
    /\ mu[c] = 0
    /\ last' = [op |-> "Remaining", key |-> k, t |-> now,
                res |-> RemainingOf(visitors[c][k], burst[c], now),
                pre |-> visitors[c][k]]
    /\ UNCHANGED <<opsVars, now, horizon, rlVars, calls, gor, admVars>>

\* the janitor's test without the cutoff
Stale_NoCutoff(v, t) == v # NoVisitor

\* the janitor's test on one visitor
Stale(v, t) == v # NoVisitor /\ v.lastSeen < t - CleanupCutoff

\* a pass of the janitor that deletes nothing
cleanupVisitors_NoDelete(c) ==
    /\ mu[c] = 0
    /\ now >= nextTick[c]
    /\ nextTick' = [nextTick EXCEPT ![c] = @ + CleanupInterval]
    /\ last' = NoLast
    /\ UNCHANGED <<opsVars, now, horizon, burst, visitors, mu, calls, gor, admVars>>

\* one pass of the janitor's loop body, under rl.mu
cleanupVisitors(c) ==
    /\ mu[c] = 0
    /\ now >= nextTick[c]
    /\ visitors' = [visitors EXCEPT ![c] =
                       [k \in Keys |-> IF Stale(visitors[c][k], now) THEN NoVisitor
                                       ELSE visitors[c][k]]]
    /\ nextTick' = [nextTick EXCEPT ![c] = @ + CleanupInterval]
    /\ last' = NoLast
    /\ UNCHANGED <<opsVars, now, horizon, burst, mu, calls, gor, admVars>>

\* the clock advances by one reading
Tick ==
    /\ now < horizon
    /\ now' = now + 1
    /\ last' = NoLast
    /\ calls' = [k \in Keys |-> IF calls[k].win < Truncate(now + 1, Rate)
                                THEN NoCalls ELSE calls[k]]
    /\ UNCHANGED <<opsVars, horizon, rlVars, gor, admVars>>

\* no project, no request
NoAdmission ==
    /\ projects = << >>
    /\ req = << >>
    /\ pending = << >>
    /\ repairs = {}

\* the second rate limit map is empty and no notification has been logged
NoOps ==
    /\ rateLimitMap = [ip \in Keys |-> << >>]
    /\ notifications = {}

\* InitRateLimiters with a chat burst of b, at clock reading t0
InitLimiters(b, t0) ==
    /\ now = t0
    /\ burst = ScaledBursts(b)
    /\ visitors = [c \in Classes |-> [k \in Keys |-> NoVisitor]]
    /\ mu = [c \in Classes |-> 0]
    /\ nextTick = [c \in Classes |-> t0 + CleanupInterval]
    /\ last = NoLast
    /\ calls = [k \in Keys |-> NoCalls]

\* one limiter, NewRateLimiter(time.Minute, burst), called from one goroutine
InitRL ==
    /\ horizon = MaxTime
    /\ \E b \in 1..MaxBurst : InitLimiters(b, 0)
    /\ gor = [g \in Callers |-> Idle]
    /\ NoAdmission
    /\ NoOps

NextRL ==
    \/ \E k \in Keys : Allow("chat", k)
    \/ \E k \in Keys : GetRemainingRequests("chat", k)
    \/ cleanupVisitors("chat")
    \/ Tick

SpecRL == InitRL /\ [][NextRL]_vars

\* ------------------------------------- Allow, statement by statement
\* Allow entered without taking rl.mu
AllowLock_NoMutex(g, c, k) ==
    /\ gor[g].pc = "idle"
    /\ mu' = [mu EXCEPT ![c] = g]
    /\ gor' = [gor EXCEPT ![g] = [Idle EXCEPT !.pc = "locked", !.key = k]]
    /\ UNCHANGED <<opsVars, now, horizon, burst, visitors, nextTick, last, calls, admVars>>

\* rl.mu.Lock(): blocks while another goroutine holds the mutex
AllowLock(g, c, k) ==
    /\ gor[g].pc = "idle"
    /\ mu[c] = 0
    /\ mu' = [mu EXCEPT ![c] = g]
    /\ gor' = [gor EXCEPT ![g] = [Idle EXCEPT !.pc = "locked", !.key = k]]
    /\ UNCHANGED <<opsVars, now, horizon, burst, visitors, nextTick, last, calls, admVars>>

\* now := time.Now(); visitor, exists := rl.visitors[ip]
AllowLookup(g, c) ==
    /\ gor[g].pc = "locked"
    /\ gor' = [gor EXCEPT ![g].pc = "looked",
                          ![g].t = now,
                          ![g].exists = (visitors[c][gor[g].key] # NoVisitor)]
    /\ UNCHANGED <<opsVars, now, horizon, rlVars, last, calls, admVars>>

\* the branches of Allow on exists, the window and the count
AllowUpdate(g, c) ==
    /\ gor[g].pc = "looked"
    /\ LET k == gor[g].key
           v == IF gor[g].exists THEN visitors[c][k] ELSE NoVisitor
       IN /\ visitors' = [visitors EXCEPT ![c][k] =
                             AllowVisitor(v, burst[c], gor[g].t)]
          /\ gor' = [gor EXCEPT ![g].pc = "updated",
                                ![g].res = AllowReturns(v, burst[c], gor[g].t)]
    /\ UNCHANGED <<opsVars, now, horizon, burst, mu, nextTick, last, calls, admVars>>

\* defer rl.mu.Unlock() and the return
AllowUnlock(g, c) ==
    /\ gor[g].pc = "updated"
    /\ mu' = [mu EXCEPT ![c] = 0]
    /\ gor' = [gor EXCEPT ![g].pc = "done"]
    /\ UNCHANGED <<opsVars, now, horizon, burst, visitors, nextTick, last, calls, admVars>>

\* the clock while the callers run
TickConc ==
    /\ now < horizon
    /\ now' = now + 1
    /\ UNCHANGED <<opsVars, horizon, rlVars, last, calls, gor, admVars>>

\* NumCallers goroutines, each calling Allow once on the chat limiter
InitConc ==
    /\ horizon = MaxClock
    /\ \E b \in 1..MaxBurst : InitLimiters(b, 0)
    /\ gor = [g \in Callers |-> Idle]
    /\ NoAdmission
    /\ NoOps

NextConc ==
    \/ \E g \in Callers : \E k \in Keys : AllowLock(g, "chat", k)
    \/ \E g \in Callers : AllowLookup(g, "chat")
    \/ \E g \in Callers : AllowUpdate(g, "chat")
    \/ \E g \in Callers : AllowUnlock(g, "chat")
    \/ TickConc

SpecConc == InitConc /\ [][NextConc]_vars

\* ============================================== message routes and handlers
\* the tenants of the projects collection
Projects == {"p1"}

\* the request slots of the server and the clients that post messages
Requests == {"r1"}
ClientIPs == {"ip1"}

\* the message routes of setupRoutes
Routes == {"chat", "embed", "user"}

\* the handler chain gin runs for a POST on each message route
Chain(route) ==
    IF route = "chat" THEN <<"rl_chat", "rl_chat", "IframeSendMessage">>
    ELSE IF route = "embed" THEN <<"rl_general", "rl_chat", "IframeSendMessage">>
    ELSE <<"rl_general", "UserAuth", "rl_chat", "SendMessage">>

\* the limiter a RateLimitMiddleware stage of a chain consults
StageClass(stage) == IF stage = "rl_chat" THEN "chat" ELSE "general"

\* project.GeminiDailyLimit = 100, "$set": gemini_daily_limit: 100
DefaultDailyLimit == 100
\* project.GeminiMonthlyLimit = 3000, "$set": gemini_monthly_limit: 3000
DefaultMonthlyLimit == 3000

\* inputTokens + outputTokens of one generation
TokenCounts == {1, 2}

\* the values of the status field: unset, or one of the Status constants
Statuses == {"", "active", "expired", "suspended", "inactive"}

\* the project documents the admin handlers can create: no usage yet
ProjectDocuments ==
    [IsActive : BOOLEAN, GeminiEnabled : BOOLEAN, HasAPIKey : BOOLEAN,
     GeminiUsage : {0}, GeminiLimit : {1, 2},
     GeminiUsageToday : {0}, GeminiUsageMonth : {0},
     GeminiDailyLimit : {0, 1}, GeminiMonthlyLimit : {0, 1},
     TotalTokensUsed : {0}, MonthlyTokenLimit : {2},
     Status : {"active", "suspended"}, ExpiryDate : {0, 1}]

\* a project that answers with AI: active, Gemini enabled, API key set
Serving(p) == p.IsActive /\ p.GeminiEnabled /\ p.HasAPIKey

\* the documents a run starts from: a serving project with any limits, suspended
\* or with an expiry date or neither, or a project with a switch off and one
\* call a day and a month
NewProjects ==
    {p \in ProjectDocuments :
        \/ Serving(p) /\ (p.Status = "active" \/ p.ExpiryDate = 0)
        \/ /\ p.GeminiDailyLimit = 1 /\ p.GeminiMonthlyLimit = 1
           /\ p.Status = "active" /\ p.ExpiryDate = 0}

\* a request slot with no request in it
NoRequest == [pc |-> "idle", route |-> "", ip |-> "", project |-> "", pos |-> 0,
              allows |-> 0, limited |-> FALSE, ai |-> FALSE, tokens |-> 0,
              outcome |-> ""]

\* the stage of its chain request r is at
Stage(r) == Chain(req[r].route)[req[r].pos]

\* gin hands the request to the next handler of the chain
NextStage(q) == [q EXCEPT !.pos = @ + 1]

\* a handler writes the response and the chain ends
Finish(q, outcome) == [q EXCEPT !.pc = "done", !.outcome = outcome]

\* a POST arrives on a message route
Arrive(r, route, ip, p) ==
    /\ req[r].pc = "idle"
    /\ req' = [req EXCEPT ![r] = [NoRequest EXCEPT !.pc = "chain", !.route = route,
                                  !.ip = ip, !.project = p, !.pos = 1]]
    /\ UNCHANGED <<opsVars, now, horizon, rlVars, last, calls, gor, projects, pending, repairs>>

\* RateLimitMiddleware(limiterType): Allow on the class's limiter, abort with 429
RateLimitMiddleware(r) ==
    /\ req[r].pc = "chain"
    /\ Stage(r) \in {"rl_chat", "rl_general"}
    /\ LET c == StageClass(Stage(r))
           v == visitors[c][req[r].ip]
           allowed == AllowReturns(v, burst[c], now)
           q == [req[r] EXCEPT !.allows = IF c = "chat" THEN @ + 1 ELSE @]
       IN /\ mu[c] = 0
          /\ visitors' = [visitors EXCEPT ![c][req[r].ip] = AllowVisitor(v, burst[c], now)]
          /\ req' = [req EXCEPT ![r] =
                        IF allowed THEN NextStage(q)
                        ELSE Finish([q EXCEPT !.limited = TRUE], "rate_limited")]
    /\ UNCHANGED <<opsVars, now, horizon, burst, mu, nextTick, last, calls, gor,
                   projects, pending, repairs>>

\* middleware.UserAuth: the token cookie is valid or the chain is aborted with 401
UserAuth(r) ==
    /\ req[r].pc = "chain"
    /\ Stage(r) = "UserAuth"
    /\ \E valid \in BOOLEAN :
          req' = [req EXCEPT ![r] = IF valid THEN NextStage(@)
                                    ELSE Finish(@, "unauthorized")]
    /\ UNCHANGED <<opsVars, now, horizon, rlVars, last, calls, gor, projects, pending, repairs>>

\* what the request body and the path parameter can be
Inputs == {"ok", "invalid_project_id", "invalid_request", "empty_message"}

\* the limit a handler compares with: a stored 0 is replaced by the default
EffectiveLimit(limit, default) == IF limit = 0 THEN default ELSE limit

\* IframeSendMessage from its first statement to its response or to the call of
\* generateGeminiResponseWithTracking, for a project document p read by FindOne
IframeOutcome(input, allowed, found, p, first) ==
    IF input # "ok" THEN input
    ELSE IF ~allowed THEN "rate_limited"
    ELSE IF ~found THEN "project_not_found"
    ELSE IF ~p.IsActive THEN "project_inactive"
    ELSE IF ~p.GeminiEnabled THEN "gemini_disabled"
    ELSE IF p.GeminiUsageToday >= EffectiveLimit(p.GeminiDailyLimit, DefaultDailyLimit)
         THEN "daily_limit_exceeded"
    ELSE IF p.GeminiUsageMonth >= EffectiveLimit(p.GeminiMonthlyLimit, DefaultMonthlyLimit)
         THEN "monthly_limit_exceeded"
    ELSE IF ~p.HasAPIKey THEN "no_api_key"
    ELSE IF first THEN "welcome"
    ELSE "generate"

\* the outcomes of IframeSendMessage that return before the daily check
BeforeDaily == Inputs \cup {"rate_limited", "project_not_found", "project_inactive",
                            "gemini_disabled"}

\* the goroutines IframeSendMessage starts to store a default limit
RepairsStarted(outcome, p) ==
    [f \in {"daily", "monthly"} |->
        IF f = "daily"
        THEN IF outcome \notin BeforeDaily /\ p.GeminiDailyLimit = 0 THEN 1 ELSE 0
        ELSE IF outcome \notin BeforeDaily \cup {"daily_limit_exceeded"}
                /\ p.GeminiMonthlyLimit = 0 THEN 1 ELSE 0]

\* SendMessage from its first statement to its response or to generateAIResponse
SendOutcome(input, allowed, found, p, first) ==
    IF input \in {"invalid_request", "empty_message"} THEN input
    ELSE IF ~allowed THEN "rate_limited"
    ELSE IF input = "invalid_project_id" THEN input
    ELSE IF ~found THEN "project_not_found"
    ELSE IF ~p.IsActive THEN "project_inactive"
    ELSE IF p.GeminiEnabled /\ p.GeminiUsage < p.GeminiLimit /\ p.HasAPIKey
         THEN IF first THEN "welcome" ELSE "generate"
    ELSE IF ~p.GeminiEnabled THEN "gemini_disabled"
    ELSE IF ~p.HasAPIKey THEN "no_api_key"
    ELSE "usage_limit_reached"

\* the request after the handler's checks: the AI call is dispatched or the
\* response is written
AfterChecks(q, outcome) ==
    IF outcome = "generate" THEN [q EXCEPT !.pc = "ai", !.ai = TRUE]
    ELSE Finish(q, outcome)

\* the chat limiter after checkRateLimit(clientIP), when the handler reaches it
CheckRateLimit(reached, ip) ==
    IF reached
    THEN [visitors EXCEPT !["chat"][ip] = AllowVisitor(@, burst["chat"], now)]
    ELSE visitors

\* handlers.IframeSendMessage, up to the AI call
IframeSendMessage(r) ==
    /\ req[r].pc = "chain"
    /\ Stage(r) = "IframeSendMessage"
    /\ mu["chat"] = 0
    /\ \E input \in Inputs, found \in BOOLEAN, first \in BOOLEAN :
          LET reached == input = "ok"
              allowed == AllowReturns(visitors["chat"][req[r].ip], burst["chat"], now)
              p == projects[req[r].project]
              outcome == IframeOutcome(input, allowed, found, p, first)
              q == [req[r] EXCEPT !.allows = IF reached THEN @ + 1 ELSE @,
                                  !.limited = reached /\ ~allowed]
          IN /\ visitors' = CheckRateLimit(reached, req[r].ip)
             /\ req' = [req EXCEPT ![r] = AfterChecks(q, outcome)]
             /\ repairs' = [repairs EXCEPT ![req[r].project] =
                               [f \in {"daily", "monthly"} |->
                                   @[f] + RepairsStarted(outcome, p)[f]]]
    /\ UNCHANGED <<opsVars, now, horizon, burst, mu, nextTick, last, calls, gor, projects, pending>>

\* handlers.SendMessage, up to the AI call
SendMessage(r) ==
    /\ req[r].pc = "chain"
    /\ Stage(r) = "SendMessage"
    /\ mu["chat"] = 0
    /\ \E input \in Inputs, found \in BOOLEAN, first \in BOOLEAN :
          LET reached == input \in {"ok", "invalid_project_id"}
              allowed == AllowReturns(visitors["chat"][req[r].ip], burst["chat"], now)
              p == projects[req[r].project]
              outcome == SendOutcome(input, allowed, found, p, first)
              q == [req[r] EXCEPT !.allows = IF reached THEN @ + 1 ELSE @,
                                  !.limited = reached /\ ~allowed]
          IN /\ visitors' = CheckRateLimit(reached, req[r].ip)
             /\ req' = [req EXCEPT ![r] = AfterChecks(q, outcome)]
    /\ UNCHANGED <<opsVars, now, horizon, burst, mu, nextTick, last, calls, gor,
                   projects, pending, repairs>>

\* the token counts the handler of a route passes to updateGeminiUsage
Recorded(route, n) == IF route = "user" THEN 0 ELSE n

\* the AI call returns, a successful one with the n tokens it used; on success
\* the handler starts go updateGeminiUsage
GenerateResponse(r) ==
    /\ req[r].pc = "ai"
    /\ \E ok \in BOOLEAN, n \in TokenCounts :
          /\ req' = [req EXCEPT ![r] =
                        IF ok THEN Finish([@ EXCEPT !.tokens = n], "success")
                        ELSE Finish(@, "error")]
          /\ pending' = IF ok
                        THEN [pending EXCEPT ![req[r].project][Recorded(req[r].route, n)] = @ + 1]
                        ELSE pending
    /\ UNCHANGED <<opsVars, now, horizon, rlVars, last, calls, gor, projects, repairs>>

\* the $inc of updateGeminiUsage on document p
IncUsage(p, n) ==
    [p EXCEPT !.GeminiUsage = @ + 1, !.GeminiUsageToday = @ + 1,
              !.GeminiUsageMonth = @ + 1, !.TotalTokensUsed = @ + n]

\* one updateGeminiUsage goroutine runs
updateGeminiUsage(id, n) ==
    /\ pending[id][n] > 0
    /\ pending' = [pending EXCEPT ![id][n] = @ - 1]
    /\ projects' = [projects EXCEPT ![id] = IncUsage(@, n)]
    /\ UNCHANGED <<opsVars, now, horizon, rlVars, last, calls, gor, req, repairs>>

\* the $set of a repair goroutine on document p
SetDefaultLimit(p, f) ==
    IF f = "daily" THEN [p EXCEPT !.GeminiDailyLimit = DefaultDailyLimit]
    ELSE [p EXCEPT !.GeminiMonthlyLimit = DefaultMonthlyLimit]

\* one goroutine started for a zero limit runs
RepairLimit(id, f) ==
    /\ repairs[id][f] > 0
    /\ repairs' = [repairs EXCEPT ![id][f] = @ - 1]
    /\ projects' = [projects EXCEPT ![id] = SetDefaultLimit(@, f)]
    /\ UNCHANGED <<opsVars, now, horizon, rlVars, last, calls, gor, req, pending>>

\* the response has been sent: the slot is free for the next request
Respond(r) ==
    /\ req[r].pc = "done"
    /\ req' = [req EXCEPT ![r] = NoRequest]
    /\ UNCHANGED <<opsVars, now, horizon, rlVars, last, calls, gor, projects, pending, repairs>>

\* the server after main: limiters built, one project in the collection; a run
\* lasts one limiter window and the first reading of the next
InitAdm ==
    /\ horizon = Rate
    /\ \E b \in 1..MaxBurst : InitLimiters(b, 0)
    /\ gor = [g \in Callers |-> Idle]
    /\ projects \in [Projects -> NewProjects]
    /\ req = [r \in Requests |-> NoRequest]
    /\ pending = [id \in Projects |-> [n \in {0} \cup TokenCounts |-> 0]]
    /\ repairs = [id \in Projects |-> [f \in {"daily", "monthly"} |-> 0]]
    /\ NoOps

NextAdm ==
    \/ \E r \in Requests, route \in Routes, ip \in ClientIPs, id \in Projects :
          Arrive(r, route, ip, id)
    \/ \E r \in Requests : RateLimitMiddleware(r)
    \/ \E r \in Requests : UserAuth(r)
    \/ \E r \in Requests : IframeSendMessage(r)
    \/ \E r \in Requests : SendMessage(r)
    \/ \E r \in Requests : GenerateResponse(r)
    \/ \E id \in Projects, n \in {0} \cup TokenCounts : updateGeminiUsage(id, n)
    \/ \E id \in Projects, f \in {"daily", "monthly"} : RepairLimit(id, f)
    \/ \E r \in Requests : Respond(r)
    \/ TickConc

SpecAdm == InitAdm /\ [][NextAdm]_vars

\* ================================================= subscription middleware
\* what the projectId path parameter can be
IdParams == {"ok", "empty", "invalid"}

\* the answer of ValidateSubscription to a status other than active
StatusReason(status) ==
    IF status = "expired" THEN "subscription_expired"
    ELSE IF status = "suspended" THEN "account_suspended"
    ELSE "account_not_active"

\* ValidateSubscription with the status rule applied before the expiry rule
SubscriptionOutcome_StatusFirst(id, found, p, t) ==
    IF id = "empty" THEN "project_id_required"
    ELSE IF id = "invalid" THEN "invalid_project_id"
    ELSE IF ~found THEN "project_not_found"
    ELSE IF p.Status # "" /\ p.Status # "active" THEN StatusReason(p.Status)
    ELSE IF p.ExpiryDate # 0 /\ t > p.ExpiryDate THEN "subscription_expired"
    ELSE IF p.MonthlyTokenLimit > 0 /\ p.TotalTokensUsed >= p.MonthlyTokenLimit
         THEN "monthly_usage_limit_reached"
    ELSE "next"

\* ValidateSubscription for document p at reading t: the abort reason, or "next"
\* when the request is handed on; subscription_expired is the renew message
SubscriptionOutcome(id, found, p, t) ==
    IF id = "empty" THEN "project_id_required"
    ELSE IF id = "invalid" THEN "invalid_project_id"
    ELSE IF ~found THEN "project_not_found"
    ELSE IF p.ExpiryDate # 0 /\ t > p.ExpiryDate THEN "subscription_expired"
    ELSE IF p.Status # "" /\ p.Status # "active" THEN StatusReason(p.Status)
    ELSE IF p.MonthlyTokenLimit > 0 /\ p.TotalTokensUsed >= p.MonthlyTokenLimit
         THEN "monthly_usage_limit_reached"
    ELSE "next"

\* gin runs a chain that has ValidateSubscription in it
Enter(r, ip, id) ==
    /\ req[r].pc = "idle"
    /\ req' = [req EXCEPT ![r] = [NoRequest EXCEPT !.pc = "subscription",
                                  !.ip = ip, !.project = id]]
    /\ UNCHANGED <<opsVars, now, horizon, rlVars, last, calls, gor, projects, pending, repairs>>

\* middleware.ValidateSubscription: abort with the reason, or c.Next()
ValidateSubscription(r) ==
    /\ req[r].pc = "subscription"
    /\ \E id \in IdParams, found \in BOOLEAN :
          req' = [req EXCEPT ![r] =
                     Finish(@, SubscriptionOutcome(id, found, projects[req[r].project], now))]
    /\ UNCHANGED <<opsVars, now, horizon, rlVars, last, calls, gor, projects, pending, repairs>>

\* the documents the middleware can find: any status, expiry and token budget
SubscriptionDocuments ==
    [IsActive : {TRUE}, GeminiEnabled : {TRUE}, HasAPIKey : {TRUE},
     GeminiUsage : {0}, GeminiLimit : {1, 2},
     GeminiUsageToday : {0}, GeminiUsageMonth : {0},
     GeminiDailyLimit : {1}, GeminiMonthlyLimit : {1},
     TotalTokensUsed : {0, 1, 2}, MonthlyTokenLimit : {0, 2},
     Status : Statuses, ExpiryDate : 0..MaxExpiry]

InitSub ==
    /\ horizon = MaxClock
    /\ \E b \in 1..MaxBurst : InitLimiters(b, 0)
    /\ gor = [g \in Callers |-> Idle]
    /\ projects \in [Projects -> SubscriptionDocuments]
    /\ req = [r \in Requests |-> NoRequest]
    /\ pending = [id \in Projects |-> [n \in {0} \cup TokenCounts |-> 0]]
    /\ repairs = [id \in Projects |-> [f \in {"daily", "monthly"} |-> 0]]
    /\ NoOps

NextSub ==
    \/ \E r \in Requests, ip \in ClientIPs, id \in Projects : Enter(r, ip, id)
    \/ \E r \in Requests : ValidateSubscription(r)
    \/ \E r \in Requests : Respond(r)
    \/ TickConc

SpecSub == InitSub /\ [][NextSub]_vars

\* ===================================================== RateLimiter claims

\* the admitted Allow calls of key k in the window of reading t
AdmittedInWindow(k, t) ==
    IF calls[k] # NoCalls /\ calls[k].win = Truncate(t, Rate) THEN calls[k].ok ELSE 0

\* C1: of the Allow(key) calls whose readings fall in one window, starting
\* from a key with no counter or a counter of an earlier window, the first
\* burst calls return true and every further call returns false: after n
\* calls in the window exactly min(n, burst) have been admitted.
C1_WindowCorrectness ==
    \A k \in Keys :
        calls[k] # NoCalls => calls[k].ok = Min(calls[k].n, burst["chat"])

C1_Witness ==
    \E k \in Keys :
        /\ calls[k].n = burst["chat"] + 1
        /\ calls[k].ok = burst["chat"]
        /\ calls[k].win > 0
        /\ last.op = "Allow" /\ last.key = k /\ last.res = 0

\* C3: an Allow whose reading truncates to a window later than the window of
\* an exhausted counter (count = burst) returns true and leaves count = 1 and
\* window = the new window, also when the reading is the boundary itself.
C3_Rollover ==
    (/\ last.op = "Allow"
     /\ last.pre # NoVisitor
     /\ last.pre.count = burst["chat"]
     /\ last.pre.window < Truncate(last.t, Rate))
    => /\ last.res = 1
       /\ visitors["chat"][last.key].count = 1
       /\ visitors["chat"][last.key].window = Truncate(last.t, Rate)

C3_Witness ==
    /\ last.op = "Allow"
    /\ last.pre # NoVisitor
    /\ last.pre.count = burst["chat"]
    /\ last.t = last.pre.window + Rate
    /\ last.res = 1
    /\ visitors["chat"][last.key].count = 1

\* C4: an Allow(a) step, admitted or denied, leaves the counter of every
\* other key b as it was, and with it what Allow(b) and
\* GetRemainingRequests(b) return.
C4_KeyIndependence ==
    [][\A a \in Keys :
        (last'.op = "Allow" /\ last'.key = a) =>
            \A b \in Keys \ {a} :
                /\ visitors'["chat"][b] = visitors["chat"][b]
                /\ AllowReturns(visitors'["chat"][b], burst'["chat"], now')
                     = AllowReturns(visitors["chat"][b], burst["chat"], now)
                /\ RemainingOf(visitors'["chat"][b], burst'["chat"], now')
                     = RemainingOf(visitors["chat"][b], burst["chat"], now)]_vars

C4_Witness ==
    \E a \in Keys : \E b \in Keys \ {a} :
        /\ last.op = "Allow" /\ last.key = a /\ last.res = 0
        /\ visitors["chat"][a].count = burst["chat"]
        /\ visitors["chat"][b] # NoVisitor
        /\ visitors["chat"][b].window = Truncate(now, Rate)
        /\ visitors["chat"][b].count < burst["chat"]

\* C5: GetRemainingRequests(key) leaves the key's counter as it was and
\* returns burst minus the number of calls admitted for the key in the
\* current window: burst for an unseen or rolled-over key, max(0, burst -
\* count) otherwise.
C5_Remaining ==
    last.op = "Remaining" =>
        /\ visitors["chat"][last.key] = last.pre
        /\ last.res = burst["chat"] - AdmittedInWindow(last.key, last.t)
        /\ last.res = (IF last.pre = NoVisitor
                          \/ last.pre.window < Truncate(last.t, Rate)
                       THEN burst["chat"]
                       ELSE IF burst["chat"] - last.pre.count < 0 THEN 0
                       ELSE burst["chat"] - last.pre.count)

C5_Witness ==
    /\ last.op = "Remaining"
    /\ last.pre # NoVisitor
    /\ last.pre.window = Truncate(last.t, Rate)
    /\ AdmittedInWindow(last.key, last.t) = 1
    /\ burst["chat"] = 2
    /\ last.res = 1

\* the callers whose Allow(k) has run its body with a reading in window w
Returned(k, w) ==
    {g \in Callers : /\ gor[g].pc \in {"updated", "done"}
                     /\ gor[g].key = k
                     /\ Truncate(gor[g].t, Rate) = w}

Windows == {w \in 0..MaxClock : w % Rate = 0}

\* C2: of the Allow(key) calls that different goroutines issue for one key
\* within one window, the key being unseen before, exactly min(M, burst)
\* return true in every interleaving, and the counter ends as a sequential
\* run of the same calls leaves it.
C2_ConcurrentAllow ==
    \A k \in Keys :
        /\ \A w \in Windows :
              Cardinality({g \in Returned(k, w) : gor[g].res})
                 = Min(Cardinality(Returned(k, w)), burst["chat"])
        /\ visitors["chat"][k] # NoVisitor =>
              visitors["chat"][k].count =
                 Min(Cardinality(Returned(k, visitors["chat"][k].window)),
                     burst["chat"])

C2_Witness ==
    \E k \in Keys :
        /\ \A g \in Callers : gor[g].pc = "done" /\ gor[g].key = k
                              /\ Truncate(gor[g].t, Rate) = 0
        /\ NumCallers > burst["chat"]
        /\ Cardinality({g \in Callers : gor[g].res}) = burst["chat"]
        /\ \E g \in Callers : ~gor[g].res

\* ================================================ admission pipeline claims
\* the handler of request r answers or dispatches the AI call in this step
Decides(r) ==
    /\ req[r].pc = "chain"
    /\ Stage(r) \in {"IframeSendMessage", "SendMessage"}
    /\ req'[r].pc \in {"ai", "done"}

\* the handler of r got past its input checks, its rate check and the lookup
Reached(r) ==
    /\ Decides(r)
    /\ req'[r].outcome \notin Inputs \cup {"rate_limited", "project_not_found"}

\* the request is let through: the AI call or the welcome message
Admitted(r) == req'[r].pc = "ai" \/ req'[r].outcome = "welcome"

\* the stored document of the project request r is for
ProjectOf(r) == projects[req[r].project]

\* the subscription stage as specified: status active and expiry not passed
SubscriptionOK(p, t) == p.Status = "active" /\ ~(p.ExpiryDate # 0 /\ t > p.ExpiryDate)

\* the three conditions of the quota stage as specified
DailyExceeded(p) ==
    p.GeminiUsageToday >= EffectiveLimit(p.GeminiDailyLimit, DefaultDailyLimit)
MonthlyExceeded(p) ==
    p.GeminiUsageMonth >= EffectiveLimit(p.GeminiMonthlyLimit, DefaultMonthlyLimit)
TokensExceeded(p) ==
    p.MonthlyTokenLimit > 0 /\ p.TotalTokensUsed >= p.MonthlyTokenLimit

QuotaReasons == {"daily_limit_exceeded", "monthly_limit_exceeded", "token_budget_exceeded"}

\* the rate stage comes first: a request that failed a rate check is answered
\* rate_limited, and a quota or subscription reason is given only to a request
\* that passed every rate check on its way
RateFirst(r) ==
    /\ req'[r].limited => req'[r].outcome = "rate_limited"
    /\ req'[r].outcome \in QuotaReasons \cup {"subscription_expired"} =>
          ~req'[r].limited /\ req'[r].allows >= 1

\* C6: for every chat message the stages are evaluated in the order rate limit,
\* subscription, quota and the denial reason is that of the first failing
\* stage: a rate-limited request is denied with rate_limited whatever the
\* subscription and the quota, and a quota reason is given only when the
\* subscription stage has passed.
C6_StageOrder ==
    [][\A r \in Requests :
          req[r].pc = "chain" /\ req'[r].pc = "done" =>
             /\ RateFirst(r)
             /\ req'[r].outcome \in QuotaReasons => SubscriptionOK(ProjectOf(r), now)]_vars

\* C7: no AI call is dispatched for a message unless the same request passed
\* the rate-limit check, the subscription check (status active, expiry not
\* passed) and the quota check (daily, monthly and token budget left), in
\* SendMessage and in IframeSendMessage.
C7_NoAIWithoutAdmission ==
    [][\A r \in Requests :
          ~req[r].ai /\ req'[r].ai =>
             /\ ~req'[r].limited /\ req'[r].allows >= 1
             /\ SubscriptionOK(ProjectOf(r), now)
             /\ ~DailyExceeded(ProjectOf(r))
             /\ ~MonthlyExceeded(ProjectOf(r))
             /\ ~TokensExceeded(ProjectOf(r))]_vars

\* C8: a tenant whose status is active but whose expiry date is set and in the
\* past is always denied with subscription_expired, whatever quota it has left
\* and whether or not the status has been flipped to expired.
C8_ExpiredAlwaysDenied ==
    [][\A r \in Requests :
          /\ Reached(r)
          /\ Serving(ProjectOf(r))
          /\ ProjectOf(r).Status = "active"
          /\ ProjectOf(r).ExpiryDate # 0 /\ now > ProjectOf(r).ExpiryDate
          => req'[r].outcome = "subscription_expired"]_vars

\* C10: the quota check short-circuits in the order daily, monthly, token: an
\* exhausted daily limit gives daily_limit_exceeded whatever the others,
\* monthly_limit_exceeded is given only when the daily check passes,
\* token_budget_exceeded only when both call counts pass, and the request is
\* allowed exactly when none of the three conditions holds.
C10_QuotaOrder ==
    [][\A r \in Requests :
          /\ Reached(r)
          /\ Stage(r) = "IframeSendMessage"
          /\ Serving(ProjectOf(r))
          /\ SubscriptionOK(ProjectOf(r), now)
          => LET p == ProjectOf(r)
                 outcome == req'[r].outcome
             IN /\ DailyExceeded(p) => outcome = "daily_limit_exceeded"
                /\ outcome = "monthly_limit_exceeded" =>
                      ~DailyExceeded(p) /\ MonthlyExceeded(p)
                /\ outcome = "token_budget_exceeded" =>
                      ~DailyExceeded(p) /\ ~MonthlyExceeded(p) /\ TokensExceeded(p)
                /\ Admitted(r) <=>
                      ~DailyExceeded(p) /\ ~MonthlyExceeded(p) /\ ~TokensExceeded(p)]_vars

\* ============================================ subscription middleware claims
\* ValidateSubscription answers request r for a project it found in this step
Validated(r) ==
    /\ req[r].pc = "subscription"
    /\ req'[r].pc = "done"
    /\ req'[r].outcome \notin {"project_id_required", "invalid_project_id",
                               "project_not_found"}

\* the expiry date is set and has passed at reading t
ExpiryPassed(p, t) == p.ExpiryDate # 0 /\ t > p.ExpiryDate

\* C9 as stated: whenever the status is set and not active the request is
\* denied with the reason keyed to the status, the status rule being applied
\* before the expiry rule (a suspended tenant gets the suspended reason even
\* if its expiry date has passed).
C9_StatusBeforeExpiry ==
    [][\A r \in Requests :
          Validated(r) /\ ProjectOf(r).Status \notin {"", "active"} =>
             req'[r].outcome = StatusReason(ProjectOf(r).Status)]_vars

\* C9 amended: the expiry rule is applied first, so a tenant whose expiry date
\* has passed gets the renew reason whatever its status; otherwise a status
\* that is set and not active is denied with the reason keyed to it; a request
\* is handed on or reaches the token rule only with status active or unset and
\* the expiry date not passed.
C9_ExpiryBeforeStatus ==
    [][\A r \in Requests :
          Validated(r) =>
             LET p == ProjectOf(r)
                 outcome == req'[r].outcome
             IN /\ ExpiryPassed(p, now) => outcome = "subscription_expired"
                /\ ~ExpiryPassed(p, now) /\ p.Status \notin {"", "active"} =>
                      outcome = StatusReason(p.Status)
                /\ outcome \in {"next", "monthly_usage_limit_reached"} =>
                      p.Status \in {"", "active"} /\ ~ExpiryPassed(p, now)]_vars

\* a suspended tenant whose expiry date has passed was answered with the renew
\* reason
C9_Witness ==
    \E r \in Requests :
        /\ req[r].pc = "done"
        /\ req[r].outcome = "subscription_expired"
        /\ projects[req[r].project].Status = "suspended"
        /\ ExpiryPassed(projects[req[r].project], now)

\* ===================================================== quota stage claims
\* C12: the token budget is checked before the call: with a monthly token
\* limit above zero and the stored token usage at or above it, a message that
\* passes the other checks is denied with token_budget_exceeded (so once the
\* usage that reaches the limit is recorded, every later message is denied),
\* and the token reason is given in no other case.
C12_TokenBudgetBeforeCall ==
    [][\A r \in Requests :
          /\ Reached(r)
          /\ Serving(ProjectOf(r))
          /\ SubscriptionOK(ProjectOf(r), now)
          /\ ~DailyExceeded(ProjectOf(r))
          /\ ~MonthlyExceeded(ProjectOf(r))
          => (TokensExceeded(ProjectOf(r)) <=>
                 req'[r].outcome = "token_budget_exceeded")]_vars

\* the call counters and the token counter of a project document
Counters(p) == <<p.GeminiUsageToday, p.GeminiUsageMonth, p.TotalTokensUsed>>

\* the usage records started and not yet applied for project id
PendingRecords(id) == pending[id][0] + pending[id][1] + pending[id][2]

\* C13: the usage counters change only through the usage record of a
\* successful generation: a request that is denied or whose generation fails
\* starts no record, a successful generation starts exactly one record
\* carrying the tokens it used, and the counters change only when a record is
\* applied, by one call today, one call this month and the record's tokens.
C13_RecordUsageOnly ==
    [][/\ \A r \in Requests :
             req[r].pc \in {"chain", "ai"} /\ req'[r].pc = "done" =>
                IF req'[r].outcome = "success"
                THEN pending' = [pending EXCEPT
                                    ![req[r].project][req'[r].tokens] = @ + 1]
                ELSE pending' = pending
       /\ \A id \in Projects :
             Counters(projects'[id]) # Counters(projects[id]) =>
                \E n \in TokenCounts :
                   /\ pending'[id] = [pending[id] EXCEPT ![n] = @ - 1]
                   /\ pending[id][n] > 0
                   /\ Counters(projects'[id]) =
                         <<projects[id].GeminiUsageToday + 1,
                           projects[id].GeminiUsageMonth + 1,
                           projects[id].TotalTokensUsed + n>>]_vars

\* no call admitted for project id is still running or waiting for its usage
\* record to be applied
NothingPending(id) ==
    /\ PendingRecords(id) = 0
    /\ \A r \in Requests : ~(req[r].pc = "ai" /\ req[r].project = id)

\* C15: in every state in which no admitted call has a usage increment still
\* to come, the calls of today are at most the daily limit and the calls of
\* this month at most the monthly limit, for every project.
C15_CeilingsHold ==
    \A id \in Projects :
        NothingPending(id) =>
            /\ projects[id].GeminiUsageToday <=
                  EffectiveLimit(projects[id].GeminiDailyLimit, DefaultDailyLimit)
            /\ projects[id].GeminiUsageMonth <=
                  EffectiveLimit(projects[id].GeminiMonthlyLimit, DefaultMonthlyLimit)

\* C14: under concurrent admission no request is admitted to the AI call once
\* the usage increment that brings the calls of today to the daily limit is
\* visible in the store: every dispatch reads a count below the limit, so the
\* admissions beyond the remaining slots are bounded by the calls in flight.
C14_NoAdmissionAtLimit ==
    [][\A r \in Requests :
          ~req[r].ai /\ req'[r].ai =>
             ProjectOf(r).GeminiUsageToday <
                EffectiveLimit(ProjectOf(r).GeminiDailyLimit, DefaultDailyLimit)]_vars

\* ================================ the second version of the chat handlers
\* checkBasicRateLimit admits at most 30 requests of one IP in a minute
BasicRateLimit == 30

\* the requests of one IP a run keeps in rateLimitMap
MaxRequests == 3

\* the entries of rateLimitMap younger than one minute at reading t
ValidTimestamps(ts, t) == SelectSeq(ts, LAMBDA x : x > t - Rate)

\* the result of checkBasicRateLimit(ip) at reading t
BasicAllowed(ip, t) == Len(ValidTimestamps(rateLimitMap[ip], t)) < BasicRateLimit

\* rateLimitMap after checkBasicRateLimit(ip) at reading t
checkBasicRateLimit(ip, t) ==
    [rateLimitMap EXCEPT ![ip] =
        IF BasicAllowed(ip, t) THEN Append(ValidTimestamps(@, t), t)
        ELSE ValidTimestamps(@, t)]

\* the second IframeSendMessage from its first statement to its response or to
\* the call of generateGeminiResponseWithTracking: the stored limits are
\* compared as they are
IframeOutcome2(input, allowed, found, p, first) ==
    IF input # "ok" THEN input
    ELSE IF ~allowed THEN "rate_limited"
    ELSE IF ~found THEN "project_not_found"
    ELSE IF ~p.IsActive THEN "project_inactive"
    ELSE IF ~p.GeminiEnabled THEN "gemini_disabled"
    ELSE IF p.GeminiUsageToday >= p.GeminiDailyLimit THEN "daily_limit_exceeded"
    ELSE IF p.GeminiUsageMonth >= p.GeminiMonthlyLimit THEN "monthly_limit_exceeded"
    ELSE IF first THEN "welcome"
    ELSE IF p.HasAPIKey THEN "generate"
    ELSE "no_api_key"

\* a POST arrives on /chat/:projectId/message, which has no middleware
Arrive2(r, ip, p) ==
    /\ req[r].pc = "idle"
    /\ Len(rateLimitMap[ip]) < MaxRequests
    /\ req' = [req EXCEPT ![r] = [NoRequest EXCEPT !.pc = "handler", !.route = "chat",
                                  !.ip = ip, !.project = p]]
    /\ UNCHANGED <<now, horizon, rlVars, last, calls, gor, projects, pending,
                   repairs, opsVars>>

\* the second handlers.IframeSendMessage, up to the AI call
IframeSendMessage2(r) ==
    /\ req[r].pc = "handler"
    /\ \E input \in Inputs, found \in BOOLEAN, first \in BOOLEAN :
          LET reached == input = "ok"
              allowed == BasicAllowed(req[r].ip, now)
              outcome == IframeOutcome2(input, allowed, found,
                                        projects[req[r].project], first)
              q == [req[r] EXCEPT !.allows = IF reached THEN @ + 1 ELSE @,
                                  !.limited = reached /\ ~allowed]
          IN /\ rateLimitMap' = IF reached THEN checkBasicRateLimit(req[r].ip, now)
                                ELSE rateLimitMap
             /\ req' = [req EXCEPT ![r] = AfterChecks(q, outcome)]
    /\ UNCHANGED <<now, horizon, rlVars, last, calls, gor, projects, pending,
                   repairs, notifications>>

\* the second generateGeminiResponseWithTracking returns; on success it has
\* started go updateProjectUsageWithTokens
GenerateResponse2(r) ==
    /\ req[r].pc = "ai"
    /\ \E ok \in BOOLEAN, n \in TokenCounts :
          /\ req' = [req EXCEPT ![r] =
                        IF ok THEN Finish([@ EXCEPT !.tokens = n], "success")
                        ELSE Finish(@, "error")]
          /\ pending' = IF ok THEN [pending EXCEPT ![req[r].project][0] = @ + 1]
                        ELSE pending
    /\ UNCHANGED <<now, horizon, rlVars, last, calls, gor, projects, repairs, opsVars>>

\* one updateProjectUsageWithTokens goroutine runs: the call counters by one,
\* no token counter
updateProjectUsageWithTokens(id) ==
    /\ pending[id][0] > 0
    /\ pending' = [pending EXCEPT ![id][0] = @ - 1]
    /\ projects' = [projects EXCEPT ![id] = IncUsage(@, 0)]
    /\ UNCHANGED <<now, horizon, rlVars, last, calls, gor, req, repairs, opsVars>>

\* the server of the second main: one project in the collection, no limiter
\* middleware on the chat route
InitChat2 ==
    /\ horizon = MaxClock
    /\ \E b \in 1..MaxBurst : InitLimiters(b, 0)
    /\ gor = [g \in Callers |-> Idle]
    /\ projects \in [Projects -> NewProjects]
    /\ req = [r \in Requests |-> NoRequest]
    /\ pending = [id \in Projects |-> [n \in {0} \cup TokenCounts |-> 0]]
    /\ repairs = [id \in Projects |-> [f \in {"daily", "monthly"} |-> 0]]
    /\ NoOps

NextChat2 ==
    \/ \E r \in Requests, ip \in ClientIPs, id \in Projects : Arrive2(r, ip, id)
    \/ \E r \in Requests : IframeSendMessage2(r)
    \/ \E r \in Requests : GenerateResponse2(r)
    \/ \E id \in Projects : updateProjectUsageWithTokens(id)
    \/ \E r \in Requests : Respond(r)
    \/ TickConc

SpecChat2 == InitChat2 /\ [][NextChat2]_vars

\* an IframeSendMessage, of either version, answers or dispatches in this step
IframeDecides(r) ==
    /\ req[r].pc \in {"chain", "handler"}
    /\ req[r].route \in {"chat", "embed"}
    /\ req'[r].pc \in {"ai", "done"}
    /\ req'[r].outcome \notin Inputs \cup {"rate_limited", "project_not_found"}

\* C11: a stored limit of zero is replaced by the default (100 a day, 3000 a
\* month) before the comparison: a message is denied with daily_limit_exceeded
\* only when the calls of today have reached the effective daily limit and
\* with monthly_limit_exceeded only when the calls of the month have reached
\* the effective monthly limit, on every path that checks these limits.
C11_ZeroLimitIsDefault ==
    [][\A r \in Requests :
          IframeDecides(r) =>
             /\ req'[r].outcome = "daily_limit_exceeded" => DailyExceeded(ProjectOf(r))
             /\ req'[r].outcome = "monthly_limit_exceeded" =>
                   MonthlyExceeded(ProjectOf(r))]_vars

\* ======================================= store maintenance and admin resets
\* time.Hour, 24 hours (AddDate(0, 0, 1)) and a month of 30 days
\* (AddDate(0, 1, 0)) in clock readings of 30 seconds
Hour == 120
Day == 2880
Month == 86400

\* the days a maintenance run lasts, and the clock step of such a run
MaxDays == 2
HalfDay == Day \div 2

\* DEFAULT_MONTHLY_TOKEN_LIMIT when the environment does not set it
DefaultMonthlyTokenLimit == 100000

\* the tenants of the projects collection in a maintenance run
Tenants == {"p1", "p2"}

\* the usage records already started and not yet applied when a run begins
MaxPending == 2

\* the documents a maintenance run starts from, at clock reading Day: a
\* document has the subscription fields (status, expiry_date, ...) or, written
\* before they existed, has none of them: an absent field reads as its zero
\* value; last_daily_reset is a day old or fresh
MaintDocuments ==
    {p \in [IsActive : {TRUE}, GeminiEnabled : {TRUE}, HasAPIKey : {TRUE},
            GeminiUsage : {1}, GeminiLimit : {2},
            GeminiUsageToday : {0, 1}, GeminiUsageMonth : {1},
            GeminiDailyLimit : {1}, GeminiMonthlyLimit : {1},
            TotalTokensUsed : {1}, MonthlyTokenLimit : {0, 2},
            Status : {"", "active", "suspended"}, ExpiryDate : {0, 2 * Day, 3 * Day},
            LastDailyReset : {0, Day}, LastMonthlyReset : {0}] :
        /\ (p.Status = "") = (p.ExpiryDate = 0)
        /\ (p.MonthlyTokenLimit = 0) = (p.ExpiryDate = 0)}

\* the call returned: what it was, at which reading, whether the store answered,
\* and the count it reports
Returned2(op, ok, n) ==
    [NoLast EXCEPT !.op = op, !.key = IF ok THEN "ok" ELSE "error", !.t = now,
                   !.res = n]

\* the filter with $lte for $lt
IsExpired_Lte(p, t) == p.ExpiryDate # 0 /\ p.ExpiryDate <= t /\ p.Status # "expired"

\* the filter of UpdateExpiredProjects at reading t: expiry_date < now and
\* status # expired; a document without expiry_date does not match
IsExpired(p, t) == p.ExpiryDate # 0 /\ p.ExpiryDate < t /\ p.Status # "expired"

\* UpdateExpiredProjects: UpdateMany sets status expired on the matching
\* documents; when the store fails, on some of them
UpdateExpiredProjects(ok) ==
    \E done \in SUBSET {id \in DOMAIN projects : IsExpired(projects[id], now)} :
        /\ ok => done = {id \in DOMAIN projects : IsExpired(projects[id], now)}
        /\ projects' = [id \in DOMAIN projects |->
                           IF id \in done THEN [projects[id] EXCEPT !.Status = "expired"]
                           ELSE projects[id]]
        /\ last' = Returned2("UpdateExpiredProjects", ok, Cardinality(done))
        /\ UNCHANGED <<now, horizon, rlVars, calls, gor, req, pending, repairs, opsVars>>

\* the $or filter of FixProjectLimits at reading t
NeedsFix(p, t) ==
    \/ p.GeminiDailyLimit = 0
    \/ p.GeminiMonthlyLimit = 0
    \/ p.LastDailyReset < t - Day
    \/ p.LastMonthlyReset < t - Month
    \/ p.Status = ""
    \/ p.ExpiryDate = 0

\* the $set of FixProjectLimits at reading t
FixDocument(p, t) ==
    [p EXCEPT !.GeminiDailyLimit = DefaultDailyLimit,
              !.GeminiMonthlyLimit = DefaultMonthlyLimit,
              !.LastDailyReset = t, !.LastMonthlyReset = t,
              !.Status = "active", !.ExpiryDate = t + Month,
              !.MonthlyTokenLimit = DefaultMonthlyTokenLimit]

\* FixProjectLimits: UpdateMany on the documents the filter matches; when the
\* store fails, on some of them
FixProjectLimits(ok) ==
    \E done \in SUBSET {id \in DOMAIN projects : NeedsFix(projects[id], now)} :
        /\ ok => done = {id \in DOMAIN projects : NeedsFix(projects[id], now)}
        /\ projects' = [id \in DOMAIN projects |->
                           IF id \in done THEN FixDocument(projects[id], now)
                           ELSE projects[id]]
        /\ last' = Returned2("FixProjectLimits", ok, Cardinality(done))
        /\ UNCHANGED <<now, horizon, rlVars, calls, gor, req, pending, repairs, opsVars>>

\* ResetMonthlyTokenUsage: UpdateMany sets total_tokens_used to 0 on every
\* document; when the store fails, on some of them
ResetMonthlyTokenUsage(ok) ==
    \E done \in SUBSET DOMAIN projects :
        /\ ok => done = DOMAIN projects
        /\ projects' = [id \in DOMAIN projects |->
                           IF id \in done THEN [projects[id] EXCEPT !.TotalTokensUsed = 0]
                           ELSE projects[id]]
        /\ last' = Returned2("ResetMonthlyTokenUsage", ok, Cardinality(done))
        /\ UNCHANGED <<now, horizon, rlVars, calls, gor, req, pending, repairs, opsVars>>

\* the admin handler ResetGeminiUsage for project id: $set gemini_usage to 0
ResetGeminiUsage(id, ok) ==
    /\ projects' = [projects EXCEPT ![id] =
                       IF ok THEN [@ EXCEPT !.GeminiUsage = 0] ELSE @]
    /\ last' = Returned2("ResetGeminiUsage", ok, 0)
    /\ UNCHANGED <<now, horizon, rlVars, calls, gor, req, pending, repairs, opsVars>>

\* one updateGeminiUsage goroutine runs while the store is maintained
RecordUsage(id, n) ==
    /\ pending[id][n] > 0
    /\ pending' = [pending EXCEPT ![id][n] = @ - 1]
    /\ projects' = [projects EXCEPT ![id] = IncUsage(@, n)]
    /\ last' = Returned2("updateGeminiUsage", TRUE, 0)
    /\ UNCHANGED <<now, horizon, rlVars, calls, gor, req, repairs, opsVars>>

\* half a day passes
Sleep ==
    /\ now + HalfDay <= horizon
    /\ now' = now + HalfDay
    /\ last' = NoLast
    /\ UNCHANGED <<horizon, rlVars, calls, gor, admVars, opsVars>>

\* the store a day after the projects were written
InitMaint ==
    /\ horizon = Day + MaxDays * Day
    /\ InitLimiters(MaxBurst, Day)
    /\ gor = [g \in Callers |-> Idle]
    /\ projects \in [Tenants -> MaintDocuments]
    /\ req = << >>
    /\ pending = << >>
    /\ repairs = {}
    /\ NoOps

NextMaint ==
    \/ \E ok \in BOOLEAN : UpdateExpiredProjects(ok)
    \/ \E ok \in BOOLEAN : FixProjectLimits(ok)
    \/ \E ok \in BOOLEAN : ResetMonthlyTokenUsage(ok)
    \/ Sleep

SpecMaint == InitMaint /\ [][NextMaint]_vars

\* one project with usage records of one token in flight, the admin resetting
\* its usage meanwhile
InitUsage ==
    /\ horizon = Day
    /\ InitLimiters(MaxBurst, Day)
    /\ gor = [g \in Callers |-> Idle]
    /\ projects \in [Projects -> MaintDocuments]
    /\ req = << >>
    /\ pending \in [Projects -> [{1} -> 0..MaxPending]]
    /\ repairs = {}
    /\ NoOps

NextUsage ==
    \/ \E id \in Projects, ok \in BOOLEAN : ResetGeminiUsage(id, ok)
    \/ \E id \in Projects : RecordUsage(id, 1)

SpecUsage == InitUsage /\ [][NextUsage]_vars

\* ============================================== reset and maintenance claims
\* C16: the calls of today of a project never decrease except by a reset, a
\* reset leaves them at exactly 0, and they are never negative, in every
\* interleaving of resets and usage records.
C16_ResetToZero ==
    [][\A id \in Projects :
          /\ projects'[id].GeminiUsageToday >= 0
          /\ projects'[id].GeminiUsageToday < projects[id].GeminiUsageToday =>
                ResetGeminiUsage(id, TRUE)
          /\ ResetGeminiUsage(id, TRUE) => projects'[id].GeminiUsageToday = 0]_vars

\* last_daily_reset of document p is more than one day old at reading t
StaleDaily(p, t) == p.LastDailyReset < t - Day

\* C17: after the daily maintenance pass every project whose last daily reset
\* was more than one day old has no calls today and a refreshed last daily
\* reset, and every other project keeps its calls of today.
C17_DailyPassZeroes ==
    [][FixProjectLimits(TRUE) =>
          \A id \in Tenants :
             IF StaleDaily(projects[id], now)
             THEN /\ projects'[id].GeminiUsageToday = 0
                  /\ projects'[id].LastDailyReset = now
             ELSE projects'[id].GeminiUsageToday = projects[id].GeminiUsageToday]_vars

\* the expiry date of document p is set and before reading t
ExpiryInPast(p, t) == p.ExpiryDate # 0 /\ p.ExpiryDate < t

\* C18: after an UpdateExpiredProjects pass that the store completed, every
\* project whose expiry date is before the clock reading of the pass has
\* status expired and every other project has the status it had before.
C18_ExpiredAfterPass ==
    [][UpdateExpiredProjects(TRUE) =>
          \A id \in Tenants :
             IF ExpiryInPast(projects[id], now)
             THEN projects'[id].Status = "expired"
             ELSE projects'[id].Status = projects[id].Status]_vars

\* a pass has just marked one project expired and left a suspended project,
\* whose expiry date has not passed, suspended
C18_Witness ==
    /\ last.op = "UpdateExpiredProjects" /\ last.key = "ok" /\ last.res = 1
    /\ \E id, other \in Tenants :
          /\ projects[id].Status = "expired" /\ ExpiryInPast(projects[id], last.t)
          /\ projects[other].Status = "suspended"
          /\ ~ExpiryInPast(projects[other], last.t)

\* ================================================ the notification log
\* the notification types, the cool-downs in hours a caller asks about, and
\* the notifications a run logs
NotificationTypes == {"test", "usage_warning"}
MaxHours == 2
MaxNotifications == 2
HalfHour == Hour \div 2

\* LogNotification: InsertOne of a notification sent now, unless the store fails
LogNotification(id, type, ok) ==
    /\ Cardinality(notifications) < MaxNotifications
    /\ notifications' = IF ok THEN notifications \cup
                                     {[project_id |-> id, type |-> type, sent_at |-> now]}
                        ELSE notifications
    /\ last' = [op |-> "LogNotification", key |-> id, type |-> type, hours |-> 0,
                t |-> now, res |-> FALSE, err |-> ~ok]
    /\ UNCHANGED <<now, horizon, rlVars, calls, gor, admVars, rateLimitMap>>

\* the filter with $gt for $gte
RecentlySent_Strict(id, type, hours, t) ==
    \E n \in notifications :
        n.project_id = id /\ n.type = type /\ n.sent_at > t - hours * Hour

\* the filter of WasNotificationRecentlySent at reading t counts a document
RecentlySent(id, type, hours, t) ==
    \E n \in notifications :
        n.project_id = id /\ n.type = type /\ n.sent_at >= t - hours * Hour

\* WasNotificationRecentlySent: count > 0, or false and the error when the
\* store fails
WasNotificationRecentlySent(id, type, hours, ok) ==
    /\ last' = [op |-> "WasNotificationRecentlySent", key |-> id, type |-> type,
                hours |-> hours, t |-> now,
                res |-> ok /\ RecentlySent(id, type, hours, now), err |-> ~ok]
    /\ UNCHANGED <<now, horizon, rlVars, calls, gor, admVars, opsVars>>

\* half an hour passes
SleepHalfHour ==
    /\ now + HalfHour <= horizon
    /\ now' = now + HalfHour
    /\ last' = NoLast
    /\ UNCHANGED <<horizon, rlVars, calls, gor, admVars, opsVars>>

\* an empty notifications collection; a run lasts half an hour more than the
\* longest cool-down
InitNotif ==
    /\ horizon = MaxHours * Hour + HalfHour
    /\ InitLimiters(MaxBurst, 0)
    /\ gor = [g \in Callers |-> Idle]
    /\ NoAdmission
    /\ NoOps

NextNotif ==
    \/ \E id \in Tenants, type \in NotificationTypes, ok \in BOOLEAN :
          LogNotification(id, type, ok)
    \/ \E id \in Tenants, type \in NotificationTypes, hours \in 0..MaxHours,
          ok \in BOOLEAN : WasNotificationRecentlySent(id, type, hours, ok)
    \/ SleepHalfHour

SpecNotif == InitNotif /\ [][NextNotif]_vars

\* the readings at which a notification of this type was logged for project id
SentAt(id, type) ==
    {n.sent_at : n \in {m \in notifications : m.project_id = id /\ m.type = type}}

\* C19: a WasNotificationRecentlySent(P, T, H) that the store answered returns
\* true exactly when a notification for this project and this type was logged
\* and the newest one was logged at most H hours before the reading: true
\* from the record up to H hours later, false afterwards, whatever was logged
\* for another project or another type.
C19_DedupWindow ==
    last.op = "WasNotificationRecentlySent" /\ ~last.err =>
        LET sent == SentAt(last.key, last.type)
        IN last.res <=>
              /\ sent # {}
              /\ \E newest \in sent :
                    /\ \A s \in sent : s <= newest
                    /\ newest <= last.t /\ last.t <= newest + last.hours * Hour

\* asked after the cool-down of the only notification of the project and the
\* type, with a fresh notification of the same type logged for another
\* project, the answer is false
C19_Witness ==
    /\ last.op = "WasNotificationRecentlySent" /\ ~last.err /\ ~last.res
    /\ last.hours > 0
    /\ SentAt(last.key, last.type) # {}
    /\ \E n \in notifications :
          n.project_id # last.key /\ n.type = last.type /\ n.sent_at = last.t

\* ==================================================== the Redis limiter
\* RedisRateLimiter.Allow returns true: the store answered and requests remain
RedisAllowReturns(err, remaining) == ~err /\ remaining # 0

\* rl.Allow(ctx, key, limit): the store fails, or answers with the requests
\* remaining of the limit
RedisAllow(k, limit, err, remaining) ==
    /\ CallsInWindow(calls[k], now) < MaxCalls
    /\ last' = [op |-> "RedisAllow", key |-> k, t |-> now,
                res |-> IF RedisAllowReturns(err, remaining) THEN 1 ELSE 0,
                pre |-> NoVisitor, err |-> err, limit |-> limit,
                remaining |-> IF err THEN 0 ELSE remaining]
    /\ calls' = [calls EXCEPT ![k] = CallsAfter(@, now, RedisAllowReturns(err, remaining))]
    /\ UNCHANGED <<now, horizon, rlVars, gor, admVars, opsVars>>

\* a Redis limiter, called from one goroutine
InitRedis ==
    /\ horizon = MaxClock
    /\ InitLimiters(MaxBurst, 0)
    /\ gor = [g \in Callers |-> Idle]
    /\ NoAdmission
    /\ NoOps

NextRedis ==
    \/ \E k \in Keys, limit \in 1..MaxBurst, err \in BOOLEAN :
          \E remaining \in 0..(limit - 1) : RedisAllow(k, limit, err, remaining)
    \/ Tick

SpecRedis == InitRedis /\ [][NextRedis]_vars

\* C20: the rate-limit stage fails open: when the store of the rate limiter
\* is unreachable, the request is treated as allowed by the limiter (the
\* quota and subscription lookups failing closed).
C20_RateLimitFailsOpen ==
    last.op = "RedisAllow" /\ last.err => last.res = 1

\* ============================================= request path and limiter claims
\* C21: a message whose project ID is malformed is rejected before any
\* limiter is consulted: a request answered invalid_project_id has made no
\* Allow call on the chat limiter, so the counters of its client are what
\* they were before it arrived.
C21_MalformedIdTouchesNothing ==
    \A r \in Requests :
        req[r].pc = "done" /\ req[r].outcome = "invalid_project_id" =>
            req[r].allows = 0

\* ===================================== concurrent updateGeminiUsage goroutines
\* a goroutine that has not been started
NotStarted == [pc |-> "idle", project |-> "", tokens |-> 0, seen |-> << >>]

\* go updateGeminiUsage(objID, inputTokens, outputTokens) with n tokens in
\* all; seen is the document as it is stored when the goroutine starts
GoUpdateGeminiUsage(g, id, n) ==
    /\ gor[g].pc = "idle"
    /\ gor' = [gor EXCEPT ![g] = [pc |-> "started", project |-> id, tokens |-> n,
                                  seen |-> projects[id]]]
    /\ UNCHANGED <<now, horizon, rlVars, last, calls, admVars, opsVars>>

\* the update done as a read at the start and a write of the sums at the end
UpdateOneUsage_ReadModifyWrite(g, ok) ==
    /\ gor[g].pc = "started"
    /\ gor' = [gor EXCEPT ![g].pc = IF ok THEN "done" ELSE "failed"]
    /\ projects' = IF ok THEN [projects EXCEPT ![gor[g].project] =
                                  IncUsage(gor[g].seen, gor[g].tokens)]
                   ELSE projects
    /\ UNCHANGED <<now, horizon, rlVars, last, calls, req, pending, repairs, opsVars>>

\* collection.UpdateOne with the $inc document: one atomic update of the
\* stored document, or an error that is logged
UpdateOneUsage(g, ok) ==
    /\ gor[g].pc = "started"
    /\ gor' = [gor EXCEPT ![g].pc = IF ok THEN "done" ELSE "failed"]
    /\ projects' = IF ok THEN [projects EXCEPT ![gor[g].project] =
                                  IncUsage(@, gor[g].tokens)]
                   ELSE projects
    /\ UNCHANGED <<now, horizon, rlVars, last, calls, req, pending, repairs, opsVars>>

\* one serving project without usage, and NumCallers goroutines to start
InitRecord ==
    /\ horizon = 0
    /\ InitLimiters(MaxBurst, 0)
    /\ gor = [g \in Callers |-> NotStarted]
    /\ projects \in [Projects -> {p \in NewProjects : Serving(p) /\ p.Status = "active"}]
    /\ req = << >>
    /\ pending = << >>
    /\ repairs = {}
    /\ NoOps

NextRecord ==
    \/ \E g \in Callers, id \in Projects, n \in TokenCounts : GoUpdateGeminiUsage(g, id, n)
    \/ \E g \in Callers, ok \in BOOLEAN : UpdateOneUsage(g, ok)

SpecRecord == InitRecord /\ [][NextRecord]_vars

\* the goroutines whose update of project id the store has applied
Completed(id) == {g \in Callers : gor[g].pc = "done" /\ gor[g].project = id}

\* the tokens reported by the goroutines of S
RECURSIVE SumTokens(_)
SumTokens(S) ==
    IF S = {} THEN 0
    ELSE LET g == CHOOSE x \in S : TRUE
         IN gor[g].tokens + SumTokens(S \ {g})

\* C22: concurrent usage records lose no update: whatever the interleaving,
\* once M updates of a project have been applied its calls of today and of
\* the month are M more than at the start (zero) and its token usage is more
\* by the sum of the reported token counts.
C22_NoLostUpdate ==
    \A id \in Projects :
        /\ projects[id].GeminiUsageToday = Cardinality(Completed(id))
        /\ projects[id].GeminiUsageMonth = Cardinality(Completed(id))
        /\ projects[id].TotalTokensUsed = SumTokens(Completed(id))

\* every goroutine was started before any update was applied, they reported
\* different token counts, and all updates have been applied
C22_Witness ==
    /\ \A g \in Callers : gor[g].pc = "done" /\ gor[g].seen.GeminiUsageToday = 0
    /\ \E g, h \in Callers : gor[g].tokens # gor[h].tokens

\* ============================================ the janitor, statement by statement
\* the janitor goroutine of a limiter, and the goroutine that calls Allow
\* while it sweeps
Janitor == NumCallers + 1
Sweepers == {1}

\* the janitor between two ticks
\* (deleted: the keys the last sweep removed)
Waiting == [pc |-> "waiting", cutoff |-> 0, todo |-> {}, deleted |-> {}]

\* the readings at which the visitors of a limiter that has run for two
\* ticker periods were last seen
MaxLastSeen == 3

\* the visitors Allow can have left: seen at t with 1..b calls in t's window
Seen(b) ==
    {[lastSeen |-> t, count |-> n, window |-> Truncate(t, Rate)] :
        t \in 0..MaxLastSeen, n \in 1..b}

\* the janitor enters the sweep without waiting for rl.mu
JanitorLock_NoMutex(c) ==
    /\ gor[Janitor].pc = "waiting"
    /\ now >= nextTick[c]
    /\ mu' = [mu EXCEPT ![c] = Janitor]
    /\ nextTick' = [nextTick EXCEPT ![c] = @ + CleanupInterval]
    /\ gor' = [gor EXCEPT ![Janitor] =
                  [pc |-> "sweeping", cutoff |-> now - CleanupCutoff,
                   todo |-> {k \in Keys : visitors[c][k] # NoVisitor},
                   deleted |-> {}]]
    /\ UNCHANGED <<now, horizon, burst, visitors, last, calls, admVars, opsVars>>

\* case <-ticker.C: rl.mu.Lock(); cutoff := time.Now().Add(-10 * time.Minute);
\* the range over rl.visitors begins
JanitorLock(c) ==
    /\ gor[Janitor].pc = "waiting"
    /\ now >= nextTick[c]
    /\ mu[c] = 0
    /\ mu' = [mu EXCEPT ![c] = Janitor]
    /\ nextTick' = [nextTick EXCEPT ![c] = @ + CleanupInterval]
    /\ gor' = [gor EXCEPT ![Janitor] =
                  [pc |-> "sweeping", cutoff |-> now - CleanupCutoff,
                   todo |-> {k \in Keys : visitors[c][k] # NoVisitor},
                   deleted |-> {}]]
    /\ UNCHANGED <<now, horizon, burst, visitors, last, calls, admVars, opsVars>>

\* one iteration of the range: if visitor.lastSeen.Before(cutoff) delete
JanitorVisit(c, k) ==
    /\ gor[Janitor].pc = "sweeping"
    /\ k \in gor[Janitor].todo
    /\ visitors' = [visitors EXCEPT ![c][k] =
                       IF visitors[c][k] # NoVisitor
                          /\ visitors[c][k].lastSeen < gor[Janitor].cutoff
                       THEN NoVisitor ELSE @]
    /\ gor' = [gor EXCEPT ![Janitor].todo = @ \ {k},
                          ![Janitor].deleted =
                              IF visitors[c][k] # NoVisitor
                                 /\ visitors[c][k].lastSeen < gor[Janitor].cutoff
                              THEN @ \cup {k} ELSE @]
    /\ UNCHANGED <<now, horizon, burst, mu, nextTick, last, calls, admVars, opsVars>>

\* the range is over: rl.mu.Unlock()
JanitorUnlock(c) ==
    /\ gor[Janitor].pc = "sweeping"
    /\ gor[Janitor].todo = {}
    /\ mu' = [mu EXCEPT ![c] = 0]
    /\ gor' = [gor EXCEPT ![Janitor] = [Waiting EXCEPT !.cutoff = gor[Janitor].cutoff,
                                  !.deleted = gor[Janitor].deleted]]
    /\ UNCHANGED <<now, horizon, burst, visitors, nextTick, last, calls, admVars, opsVars>>

\* a chat limiter created two ticker periods ago, its second tick due, with
\* the visitors of its first minutes still in the map
InitJanitor ==
    /\ horizon = 2 * CleanupInterval + MaxClock
    /\ now = 2 * CleanupInterval
    /\ \E b \in 1..MaxBurst :
          /\ burst = ScaledBursts(b)
          /\ visitors \in [Classes -> [Keys -> {NoVisitor}]] \cup
                {[c \in Classes |-> IF c = "chat" THEN chat
                                    ELSE [k \in Keys |-> NoVisitor]] :
                    chat \in [Keys -> {NoVisitor} \cup Seen(b)]}
    /\ mu = [c \in Classes |-> 0]
    /\ nextTick = [c \in Classes |-> 2 * CleanupInterval]
    /\ last = NoLast
    /\ calls = [k \in Keys |-> NoCalls]
    /\ gor = [g \in Callers \cup {Janitor} |-> IF g = Janitor THEN Waiting ELSE Idle]
    /\ NoAdmission
    /\ NoOps

NextJanitor ==
    \/ JanitorLock("chat")
    \/ \E k \in Keys : JanitorVisit("chat", k)
    \/ JanitorUnlock("chat")
    \/ \E g \in Sweepers : \E k \in Keys : AllowLock(g, "chat", k)
    \/ \E g \in Sweepers : AllowLookup(g, "chat")
    \/ \E g \in Sweepers : AllowUpdate(g, "chat")
    \/ \E g \in Sweepers : AllowUnlock(g, "chat")
    \/ \E k \in Keys : GetRemainingRequests("chat", k)
    \/ TickConc

SpecJanitor == InitJanitor /\ [][NextJanitor]_vars

\* while the janitor holds rl.mu no caller is inside Allow
Exclusive ==
    mu["chat"] = Janitor =>
        \A g \in Callers : gor[g].pc \in {"idle", "done"}

\* the visitors a finished sweep has left in the map
Left == {k \in Keys : visitors["chat"][k] # NoVisitor}

\* a sweep has just finished
Swept == gor[Janitor].pc = "waiting" /\ mu["chat"] = 0 /\ gor[Janitor].cutoff > 0

\* C23: when a sweep of the janitor ends no counter remains whose windowStart
\* is before the sweep's cutoff (its clock reading less the ten minutes of
\* retention), and between the first test and the last deletion of the sweep
\* no Allow and no GetRemainingRequests runs.
C23_SweepByWindowStart ==
    [][/\ Exclusive
       /\ gor[Janitor].pc = "sweeping" =>
              \A k \in Keys : ~GetRemainingRequests("chat", k)
       /\ JanitorUnlock("chat") =>
              \A k \in Left : visitors["chat"][k].window >= gor[Janitor].cutoff]_vars

\* C23 as the code has it: when a sweep ends no counter remains that was
\* last seen before the sweep's cutoff, so that a windowStart that remains
\* is less than one window older than the cutoff; and between the first test
\* and the last deletion of the sweep no Allow and no GetRemainingRequests
\* runs.
C23_SweepByLastSeen ==
    [][/\ Exclusive
       /\ gor[Janitor].pc = "sweeping" =>
              \A k \in Keys : ~GetRemainingRequests("chat", k)
       /\ JanitorUnlock("chat") =>
              \A k \in Left :
                  /\ visitors["chat"][k].lastSeen >= gor[Janitor].cutoff
                  /\ visitors["chat"][k].window > gor[Janitor].cutoff - Rate]_vars

\* a sweep ended that deleted one counter and kept another whose windowStart
\* is before the cutoff, while a caller ran Allow
C23_Witness ==
    /\ Swept
    /\ gor[Janitor].deleted # {}
    /\ \E k \in Left : visitors["chat"][k].window < gor[Janitor].cutoff
    /\ \E g \in Sweepers : gor[g].pc = "done" /\ gor[g].t > 2 * CleanupInterval

\* ===================================== callers and sweeps over two windows
\* the counter of a key that used up its burst in the limiter's first window
Exhausted(b) == [lastSeen |-> 0, count |-> b, window |-> 0]

\* a chat limiter created two ticker periods ago, its second tick due; some
\* keys still have the counter of the first window; NumCallers goroutines
\* are about to call Allow, in this window or the next
InitWindow ==
    /\ horizon = 2 * CleanupInterval + Rate
    /\ now = 2 * CleanupInterval
    /\ \E b \in 1..MaxBurst :
          /\ burst = ScaledBursts(b)
          /\ \E old \in SUBSET Keys :
                visitors = [c \in Classes |-> [k \in Keys |->
                               IF c = "chat" /\ k \in old THEN Exhausted(b)
                               ELSE NoVisitor]]
    /\ mu = [c \in Classes |-> 0]
    /\ nextTick = [c \in Classes |-> 2 * CleanupInterval]
    /\ last = NoLast
    /\ calls = [k \in Keys |-> NoCalls]
    /\ gor = [g \in Callers |-> Idle]
    /\ NoAdmission
    /\ NoOps

NextWindow ==
    \/ \E g \in Callers : \E k \in Keys : AllowLock(g, "chat", k)
    \/ \E g \in Callers : AllowLookup(g, "chat")
    \/ \E g \in Callers : AllowUpdate(g, "chat")
    \/ \E g \in Callers : AllowUnlock(g, "chat")
    \/ cleanupVisitors("chat")
    \/ TickConc

SpecWindow == InitWindow /\ [][NextWindow]_vars

\* the callers whose Allow(k) returned true with a reading in from..to
AdmittedIn(k, from, to) ==
    {g \in Callers : /\ gor[g].pc \in {"updated", "done"}
                     /\ gor[g].key = k
                     /\ gor[g].res
                     /\ gor[g].t \in from..to}

\* the readings the callers can take
Readings == (2 * CleanupInterval)..(2 * CleanupInterval + Rate)

\* C25: of the Allow(key) calls of one key whose readings lie in an interval
\* of one window's length at most 2 * burst return true, and at most burst
\* of those whose readings lie in one window, whatever the order of the calls
\* and of the janitor's sweeps.
C25_FixedWindowBound ==
    \A k \in Keys : \A t \in Readings :
        /\ Cardinality(AdmittedIn(k, t, t + Rate - 1)) <= 2 * burst["chat"]
        /\ Cardinality(AdmittedIn(k, Truncate(t, Rate), Truncate(t, Rate) + Rate - 1))
              <= burst["chat"]

\* after a sweep that removed the key's old counter, three calls of the key
\* in one interval of a window's length: the two on either side of the
\* window boundary admitted, the third denied
C25_Witness ==
    \E k \in Keys : \E t \in Readings :
        /\ burst["chat"] = 1
        /\ nextTick["chat"] > 2 * CleanupInterval
        /\ visitors["chat"][k].window > 0
        /\ Truncate(t, Rate) # Truncate(t + 1, Rate)
        /\ Cardinality(AdmittedIn(k, t, t + Rate - 1)) = 2
        /\ \E g \in Callers :
              /\ gor[g].pc = "done" /\ gor[g].key = k /\ ~gor[g].res
              /\ gor[g].t \in t..(t + Rate - 1)

\* C26: a message costs its client one unit of the chat limiter's budget: a
\* request that has come through a message route to the AI call has had the
\* chat limiter's Allow called once for its client key.
C26_OneChatUnitPerMessage ==
    \A r \in Requests :
        req[r].pc = "ai" => req[r].allows = 1

\* C27: a maintenance pass (UpdateExpiredProjects, then FixProjectLimits)
\* re-activates and extends nothing: when FixProjectLimits ends the pass,
\* every project whose expiry date is in the past has status expired and the
\* expiry date it had, and no project that was expired or suspended is active.
C27_NoReactivation ==
    [][(/\ last.op = "UpdateExpiredProjects" /\ last.key = "ok"
        /\ FixProjectLimits(TRUE)) =>
          \A id \in Tenants :
             /\ ExpiryInPast(projects[id], now) =>
                   /\ projects'[id].Status = "expired"
                   /\ projects'[id].ExpiryDate = projects[id].ExpiryDate
             /\ projects[id].Status \in {"expired", "suspended"} =>
                   projects'[id].Status # "active"]_vars

\* ================================== zero-limit repair and UpdateProjectLimits
\* the limits an administrator can post
AdminLimits == {-1, 0, 1, 2}

\* the admin handler UpdateProjectLimits for project id: negative limits are
\* refused, otherwise one UpdateOne sets both limits
UpdateProjectLimits(id, daily, monthly, ok) ==
    /\ projects' = [projects EXCEPT ![id] =
                       IF daily < 0 \/ monthly < 0 \/ ~ok THEN @
                       ELSE [@ EXCEPT !.GeminiDailyLimit = daily,
                                      !.GeminiMonthlyLimit = monthly]]
    /\ last' = [NoLast EXCEPT !.op = "UpdateProjectLimits",
                              !.key = IF daily < 0 \/ monthly < 0 THEN "refused"
                                      ELSE IF ok THEN "ok" ELSE "error",
                              !.t = now,
                              !.pre = [daily |-> daily, monthly |-> monthly]]
    /\ UNCHANGED <<now, horizon, rlVars, calls, gor, req, pending, repairs, opsVars>>

\* the server with one serving project, messages on the embed route and an
\* administrator
InitRepair ==
    /\ horizon = 0
    /\ \E b \in 1..MaxBurst : InitLimiters(b, 0)
    /\ gor = [g \in Callers |-> Idle]
    /\ projects \in [Projects -> {p \in NewProjects : Serving(p) /\ p.Status = "active"}]
    /\ req = [r \in Requests |-> NoRequest]
    /\ pending = [id \in Projects |-> [n \in {0} \cup TokenCounts |-> 0]]
    /\ repairs = [id \in Projects |-> [f \in {"daily", "monthly"} |-> 0]]
    /\ NoOps

NextRepair ==
    \/ \E r \in Requests, ip \in ClientIPs, id \in Projects : Arrive(r, "embed", ip, id)
    \/ \E r \in Requests : RateLimitMiddleware(r)
    \/ \E r \in Requests : IframeSendMessage(r)
    \/ \E id \in Projects, f \in {"daily", "monthly"} : RepairLimit(id, f)
    \/ \E id \in Projects, daily, monthly \in AdminLimits, ok \in BOOLEAN :
          UpdateProjectLimits(id, daily, monthly, ok)
    \/ \E r \in Requests : Respond(r)

SpecRepair == InitRepair /\ [][NextRepair]_vars

\* C28: a repair goroutine started for a limit of 0 does not undo an
\* administrator's update: once the last UpdateProjectLimits has stored
\* non-zero limits and every repair goroutine has run, the stored limits are
\* the administrator's.
C28_RepairKeepsAdminLimit ==
    \A id \in Projects :
        (/\ last.op = "UpdateProjectLimits" /\ last.key = "ok"
         /\ repairs[id]["daily"] = 0 /\ repairs[id]["monthly"] = 0) =>
            /\ last.pre.daily # 0 => projects[id].GeminiDailyLimit = last.pre.daily
            /\ last.pre.monthly # 0 =>
                  projects[id].GeminiMonthlyLimit = last.pre.monthly

\* ============================================== the janitor's third tick
\* a chat limiter created three ticker periods ago, its third tick due; every
\* key sent in the limiter's first minutes and has its counter of then
InitEvict ==
    /\ horizon = 3 * CleanupInterval + MaxClock
    /\ now = 3 * CleanupInterval
    /\ \E b \in 1..MaxBurst :
          /\ burst = ScaledBursts(b)
          /\ \E chat \in [Keys -> Seen(b)] :
                visitors = [c \in Classes |->
                               IF c = "chat" THEN chat ELSE [k \in Keys |-> NoVisitor]]
    /\ mu = [c \in Classes |-> 0]
    /\ nextTick = [c \in Classes |-> 3 * CleanupInterval]
    /\ last = NoLast
    /\ calls = [k \in Keys |-> NoCalls]
    /\ gor = [g \in Callers |-> Idle]
    /\ NoAdmission
    /\ NoOps

NextEvict ==
    \/ \E k \in Keys : Allow("chat", k)
    \/ \E k \in Keys : GetRemainingRequests("chat", k)
    \/ cleanupVisitors("chat")
    \/ Tick

\* the ticker of the janitor keeps firing, the janitor gets the mutex, and
\* the clock moves
SpecEvict ==
    /\ InitEvict
    /\ [][NextEvict]_vars
    /\ WF_vars(cleanupVisitors("chat"))
    /\ WF_vars(Tick)

\* the readings from now to the end of the run
Later == now..horizon

\* C29: a sweep deletes only counters whose window is before the current
\* window, and after it Allow and GetRemainingRequests return at every later
\* reading, and Allow leaves in the map, what they would without the sweep;
\* and the counter of a key that was last admitted in the limiter's first
\* minutes is removed unless the key is admitted again.
C29_TransparentEviction ==
    /\ [][cleanupVisitors("chat") =>
            \A k \in Keys :
               LET v == visitors["chat"][k]
                   w == visitors'["chat"][k]
                   b == burst["chat"]
               IN /\ w # v => w = NoVisitor /\ v.window < Truncate(now, Rate)
                  /\ \A t \in Later :
                        /\ AllowReturns(w, b, t) = AllowReturns(v, b, t)
                        /\ AllowVisitor(w, b, t) = AllowVisitor(v, b, t)
                        /\ RemainingOf(w, b, t) = RemainingOf(v, b, t)]_vars
    /\ \A k \in Keys :
          (visitors["chat"][k] # NoVisitor
             /\ visitors["chat"][k].lastSeen < CleanupInterval)
          ~> (visitors["chat"][k] = NoVisitor
                \/ visitors["chat"][k].lastSeen >= 3 * CleanupInterval)

\* the third sweep has removed the counter of a key that stopped sending and
\* kept the counter of a key that was admitted again, and the removed key is
\* told it has its whole burst
C29_Witness ==
    /\ nextTick["chat"] > 3 * CleanupInterval
    /\ \E k \in Keys : \E j \in Keys \ {k} :
          /\ visitors["chat"][k] = NoVisitor
          /\ visitors["chat"][j].lastSeen >= 3 * CleanupInterval
          /\ last.op = "Remaining" /\ last.key = k /\ last.res = burst["chat"]

\* ================================ RateLimitMiddleware, call by call
\* allowed = limiter.Allow(clientIP): the first of the two calls the
\* middleware makes on limiter c, under rl.mu (rank: the count Allow left)
MiddlewareAllow(g, c, k) ==
    /\ gor[g].pc = "idle"
    /\ mu[c] = 0
    /\ LET v == visitors[c][k]
       IN /\ visitors' = [visitors EXCEPT ![c][k] = AllowVisitor(v, burst[c], now)]
          /\ gor' = [gor EXCEPT ![g] =
                        [pc |-> "allowed", key |-> k, t |-> now,
                         allowed |-> AllowReturns(v, burst[c], now),
                         rank |-> AllowVisitor(v, burst[c], now).count,
                         remaining |-> 0]]
    /\ UNCHANGED <<now, horizon, burst, mu, nextTick, last, calls, admVars, opsVars>>

\* remaining = limiter.GetRemainingRequests(clientIP), the second call, and
\* the X-RateLimit-Remaining header; then the 429 or c.Next()
MiddlewareRemaining(g, c) ==
    /\ gor[g].pc = "allowed"
    /\ mu[c] = 0
    /\ gor' = [gor EXCEPT ![g].pc = "done",
                          ![g].remaining =
                              RemainingOf(visitors[c][gor[g].key], burst[c], now)]
    /\ UNCHANGED <<now, horizon, rlVars, last, calls, admVars, opsVars>>

\* NumCallers requests pass the chat middleware of a server just started
InitHeader ==
    /\ horizon = MaxClock
    /\ \E b \in 1..MaxBurst : InitLimiters(b, 0)
    /\ gor = [g \in Callers |-> Idle]
    /\ NoAdmission
    /\ NoOps

NextHeader ==
    \/ \E g \in Callers : \E k \in Keys : MiddlewareAllow(g, "chat", k)
    \/ \E g \in Callers : MiddlewareRemaining(g, "chat")
    \/ TickConc

SpecHeader == InitHeader /\ [][NextHeader]_vars

\* C30: the X-RateLimit-Remaining header agrees with the decision of the
\* middleware that set it: 0 on a request it denies, burst - k on the request
\* it admits as the k-th admitted call of the key in the window.
C30_HeaderMatchesDecision ==
    \A g \in Callers :
        gor[g].pc = "done" =>
            gor[g].remaining = (IF gor[g].allowed
                                THEN burst["chat"] - gor[g].rank ELSE 0)

\* ============================== the store round trips of the message handlers
\* the context of the handler's project lookup has a deadline:
\* IframeSendMessage uses context.WithTimeout(10 s), SendMessage
\* context.Background()
HasDeadline(stage) == stage = "IframeSendMessage"

\* what the handler of stage answers or does for input, rate decision, lookup
\* result and first-message result
HandlerOutcome(stage, input, allowed, found, p, first) ==
    IF stage = "SendMessage" THEN SendOutcome(input, allowed, found, p, first)
    ELSE IframeOutcome(input, allowed, found, p, first)

\* the handler from its first statement to the FindOne it sends to the store
HandlerBegin(r) ==
    /\ req[r].pc = "chain"
    /\ Stage(r) \in {"IframeSendMessage", "SendMessage"}
    /\ mu["chat"] = 0
    /\ \E input \in Inputs :
          LET reached == IF Stage(r) = "SendMessage"
                         THEN input \in {"ok", "invalid_project_id"}
                         ELSE input = "ok"
              allowed == AllowReturns(visitors["chat"][req[r].ip], burst["chat"], now)
              early == HandlerOutcome(Stage(r), input, allowed, TRUE,
                                      projects[req[r].project], FALSE)
              q == [req[r] EXCEPT !.allows = IF reached THEN @ + 1 ELSE @,
                                  !.limited = reached /\ ~allowed]
          IN /\ visitors' = CheckRateLimit(reached, req[r].ip)
             /\ req' = [req EXCEPT ![r] =
                           IF input # "ok" \/ ~allowed THEN Finish(q, early)
                           ELSE [q EXCEPT !.pc = "find"]]
    /\ UNCHANGED <<opsVars, now, horizon, burst, mu, nextTick, last, calls, gor,
                   projects, pending, repairs>>

\* the store answers the FindOne: the handler runs its checks on the document
\* and answers, or goes on to isFirstMessage
FindOneAnswers(r) ==
    /\ req[r].pc = "find"
    /\ \E found \in BOOLEAN :
          LET p == projects[req[r].project]
              outcome == HandlerOutcome(Stage(r), "ok", TRUE, found, p, FALSE)
          IN /\ req' = [req EXCEPT ![r] =
                           IF outcome = "generate" THEN [@ EXCEPT !.pc = "first"]
                           ELSE Finish(@, outcome)]
             /\ repairs' = IF Stage(r) = "IframeSendMessage"
                           THEN [repairs EXCEPT ![req[r].project] =
                                    [f \in {"daily", "monthly"} |->
                                        @[f] + RepairsStarted(outcome, p)[f]]]
                           ELSE repairs
    /\ UNCHANGED <<opsVars, now, horizon, rlVars, last, calls, gor, projects, pending>>

\* the deadline of the lookup's context passes: FindOne returns an error,
\* which the handler logs, and the handler answers project_not_found
FindOneTimesOut(r) ==
    /\ req[r].pc = "find"
    /\ HasDeadline(Stage(r))
    /\ req' = [req EXCEPT ![r] = Finish(@, "project_not_found")]
    /\ last' = [NoLast EXCEPT !.op = "FindOne", !.key = "deadline exceeded"]
    /\ UNCHANGED <<opsVars, now, horizon, rlVars, calls, gor, projects, pending,
                   repairs>>

\* the store answers the CountDocuments of isFirstMessage, whose context is
\* context.Background(): the welcome message, or the AI call
CountAnswers(r) ==
    /\ req[r].pc = "first"
    /\ \E first \in BOOLEAN :
          req' = [req EXCEPT ![r] =
                     IF first THEN Finish(@, "welcome")
                     ELSE [@ EXCEPT !.pc = "ai", !.ai = TRUE]]
    /\ UNCHANGED <<opsVars, now, horizon, rlVars, last, calls, gor, projects, pending,
                   repairs>>

\* the server after main, with one project in the collection
InitStore ==
    /\ horizon = 0
    /\ \E b \in 1..MaxBurst : InitLimiters(b, 0)
    /\ gor = [g \in Callers |-> Idle]
    /\ projects \in [Projects -> NewProjects]
    /\ req = [r \in Requests |-> NoRequest]
    /\ pending = [id \in Projects |-> [n \in {0} \cup TokenCounts |-> 0]]
    /\ repairs = [id \in Projects |-> [f \in {"daily", "monthly"} |-> 0]]
    /\ NoOps

NextStore ==
    \/ \E r \in Requests, route \in Routes, ip \in ClientIPs, id \in Projects :
          Arrive(r, route, ip, id)
    \/ \E r \in Requests : RateLimitMiddleware(r)
    \/ \E r \in Requests : UserAuth(r)
    \/ \E r \in Requests : HandlerBegin(r)
    \/ \E r \in Requests : FindOneAnswers(r)
    \/ \E r \in Requests : FindOneTimesOut(r)
    \/ \E r \in Requests : CountAnswers(r)
    \/ \E r \in Requests : Respond(r)

\* gin runs every handler of a chain and a context's deadline passes; nothing
\* makes the store answer
SpecStore ==
    /\ InitStore
    /\ [][NextStore]_vars
    /\ \A r \in Requests :
          /\ WF_vars(RateLimitMiddleware(r))
          /\ WF_vars(UserAuth(r))
          /\ WF_vars(HandlerBegin(r))
          /\ WF_vars(FindOneTimesOut(r))

\* C24: every message that has entered a chain is admitted to the AI call or
\* answered, whether or not the store answers the lookups the handler sends.
C24_EveryMessageDecided ==
    \A r \in Requests :
        req[r].pc = "chain" ~> req[r].pc \in {"ai", "done"}

====
